---- MODULE Spec2Model ----
(***************************************************************************)
(* Model of the Mangapill downloader's concurrent download engine:         *)
(*   - the batch orchestrators DownloadManager.download_chapters (CLI) and *)
(*     DownloadWorker.run (GUI, with cooperative cancellation),            *)
(*   - the chapter download unit DownloadManager.download_chapter_images,  *)
(*   - the image download unit DownloadManager.download_image,             *)
(*   - the retry decorator with_retry / retry_request.                     *)
(***************************************************************************)
EXTENDS Integers, Sequences, FiniteSets, TLC

\* ---------------------------------------------------------------- bounds
MaxChapters == 2
MaxImages == 2
MaxWorkers == 2
MaxRetries == 2
MaxDelay == 2
MaxUrls == 1002
MaxTotal == 3
MaxParts == 2
MaxPartLen == 4
MaxRequests == 4
MaxSetting == 1
MaxOptionLen == 1
MaxLiveChapters == 1
MaxNameLen == 2

VARIABLES
    mode,                  \* "cli": download_chapters, "gui": DownloadWorker.run
    config,                \* the Config object the batch was started with
    N,                     \* len(chapters) / len(selected_chapters)
    pc,                    \* position of the orchestrating thread
    submitted,             \* chapters handed to executor.submit so far
    cancelled,             \* DownloadWorker._is_cancelled
    unit,                  \* per chapter: position of its chapter unit
    image_urls,            \* per chapter: len(image_urls) once scraped
    img,                   \* per chapter: the image futures, in URL order
    successful_downloads,  \* per chapter: the tally of download_chapter_images
    future,                \* per chapter: the chapter future's outcome
    collected,             \* chapters the as_completed loop has handled
    successful,            \* GUI tally
    failed,                \* GUI tally
    results,               \* CLI: the list download_chapters returns
    chapter,               \* GUI: the chapter the collection loop is handling
    cancelPhase,           \* history: where the orchestrator was when cancel() ran
    cancelUnit,            \* history, per chapter: where the unit was at cancel()
    images_ok,             \* history, per chapter: image downloads that succeeded
    chapter_fault,         \* history, per chapter: the unit met an exception
    \* one call of a function wrapped by retry_request:
    max_retries,           \* the decorator's max_retries
    base_delay,            \* the decorator's base_delay
    behaviour,             \* what the n-th call of the wrapped function does
    attempt,               \* the loop variable of with_retry's wrapper
    calls,                 \* history: calls of the wrapped function so far
    sleeps,                \* history: the arguments of time.sleep, in order
    last_exception,        \* the wrapper's last_exception
    outcome,               \* how the wrapped call ended, once it has
    \* the filename loop of download_chapter_images:
    naming,                \* i, the filename of image i, of image i-1, of image 1
    \* post-processing (convert_to_pdf / convert_to_cbz):
    post,                  \* output_format, the conversions running and done,
                           \* and each GUI unit's local `result`
    \* one call of parse_chapter_selection:
    parser,                \* total, parts handled, indices, how the call ended,
                           \* and the history of what the items named
    \* MangaBridge and its worker threads:
    bridge,                \* _scraper_worker, _download_worker, the threads
                           \* running, and the history of requests and signals
    \* config.json and load_config:
    loader,                \* what the file holds, how the last load_config
                           \* ended and the Config it returned
    \* The download command of the CLI:
    cli,                   \* where the command is, what it selected and
                           \* started, and how it exited
    \* the image units of one chapter (download_image):
    image_task,            \* each unit's position and return value, the file
                           \* at its save_path, the progress task's counter
    \* the chapter folders under output_dir:
    disk                   \* the chapters, their folders, the image files

callVars == << mode, config, N >>

orchVars ==
    << pc, submitted, collected, successful, failed, results, chapter >>

unitVars == << unit, image_urls, img, successful_downloads, future >>

histVars == << cancelPhase, cancelUnit, images_ok, chapter_fault >>

batchVars == << callVars, orchVars, cancelled, unitVars, histVars >>

retryVars == << max_retries, base_delay, behaviour, attempt, calls, sleeps,
                last_exception, outcome >>

extraVars == << naming, post, parser, bridge, loader, cli, image_task, disk >>

nonBatchVars == << retryVars, extraVars >>

nonRetryVars == << batchVars, extraVars >>

vars == << batchVars, retryVars, extraVars >>

Chapters == 1..N

\* ------------------------------------------------------- DownloadResult
DownloadResult(success, path, error, images_count) ==
    [success |-> success, path |-> path, error |-> error,
     images_count |-> images_count]

NoResult == DownloadResult(FALSE, "None", "None", 0)

\* A future: pending, resolved with a value ("result"), resolved with the
\* GUI's (chapter, None) ("absent"), or resolved with an exception.
Pending == [kind |-> "pending", result |-> NoResult]
Absent == [kind |-> "absent", result |-> NoResult]
Returned(r) == [kind |-> "result", result |-> r]
Raised == [kind |-> "exception", result |-> NoResult]

\* ------------------------------------------------------------ the pools
\* Fault: the chapter pool sized by the image-worker limit.
ChapterPoolLimitFromImageLimit == config.max_image_workers

\* ThreadPoolExecutor(max_workers=self.config.max_chapter_workers)
ChapterPoolLimit == config.max_chapter_workers

\* ThreadPoolExecutor(max_workers=self.config.max_image_workers)
ImagePoolLimit == config.max_image_workers

Executing == {c \in Chapters : unit[c] \in {"page", "images"}}

Fetching(images) == {i \in 1..Len(images) : images[i] = "fetching"}

Queued(images) == {i \in 1..Len(images) : images[i] = "queued"}

\* The HTTP requests in flight: one per unit fetching its chapter page
\* (scrape_chapter_images), one per image being fetched (fetch_image).
InFlight ==
    Cardinality({c \in Chapters : unit[c] = "page"})
    + Cardinality({p \in Chapters \X (1..MaxImages) :
                     p[2] \in Fetching(img[p[1]])})

\* Work items leave a pool's queue in submission order.
HeadOfChapterQueue(c) ==
    /\ unit[c] = "queued"
    /\ \A d \in 1..(c - 1) : unit[d] # "queued"

\* The image pool: its workers take queued images, in submission order, as
\* long as fewer than max_workers fetches are running. A pool worker that
\* is free takes the next work item at once, so the hand-over is part of
\* the step that submits the images or frees the worker.
Dispatch(images) ==
    LET free == ImagePoolLimit - Cardinality(Fetching(images)) IN
    [i \in 1..Len(images) |->
        IF /\ images[i] = "queued"
           /\ Cardinality({j \in Queued(images) : j < i}) < free
        THEN "fetching"
        ELSE images[i]]

\* ----------------------------------------------------------------- Init
\* No wrapped call is being followed.
RetryIdle ==
    /\ max_retries = 0
    /\ base_delay = 0
    /\ behaviour = << >>
    /\ attempt = 0
    /\ calls = 0
    /\ sleeps = << >>
    /\ last_exception = "None"
    /\ outcome = [kind |-> "idle", exc |-> "None", cause |-> "None"]

\* The filename loop has not begun.
NamingIdle ==
    naming = [i |-> 0, filename |-> << >>, prev |-> << >>, first |-> << >>]

\* No download has returned and no conversion has run.
PostIdle(format) ==
    post = [output_format |-> format,
            converting |-> {},
            converted |-> {},
            result |-> [c \in 1..MaxChapters |-> NoResult]]

\* parse_chapter_selection(selection, total) at its entry.
ParserEntry(total) ==
    parser = [total |-> total, k |-> 0, indices |-> {},
              outcome |-> [kind |-> "pending", error |-> "None",
                           value |-> << >>],
              named |-> {}, mentions |-> 0, bad |-> "none"]

\* MangaBridge.__init__: no worker yet. Workers are numbered from 1 in the
\* order they are created; 0 is None.
BridgeInit ==
    bridge = [scraper_worker |-> 0, download_worker |-> 0,
              scrapers |-> {}, downloaders |-> {},
              created |-> 0, requests |-> 0, request |-> "none",
              signals |-> 0]

\* constants.py
DEFAULT_MAX_CHAPTER_WORKERS == 3
DEFAULT_MAX_IMAGE_WORKERS == 5
DEFAULT_RETRY_COUNT == 3

\* Config(): every field at its default. The integer fields are kept;
\* output_dir, output_format, keep_images and retry_base_delay are read
\* and written the same way.
DefaultConfig ==
    [max_chapter_workers |-> DEFAULT_MAX_CHAPTER_WORKERS,
     max_image_workers |-> DEFAULT_MAX_IMAGE_WORKERS,
     retry_count |-> DEFAULT_RETRY_COUNT]

\* A key of the JSON object in config.json: absent, or present with a
\* value.
AbsentField == [present |-> FALSE, value |-> 0]
PresentField(value) == [present |-> TRUE, value |-> value]

\* config.json when it holds no JSON object: shape says what it is instead.
FileWithout(shape) ==
    [shape |-> shape,
     max_chapter_workers |-> AbsentField,
     max_image_workers |-> AbsentField,
     retry_count |-> AbsentField]

MissingFile == FileWithout("missing")

\* A front end has started with this config.json and has not yet called
\* load_config. `loaded` is the Config its variable (config / self._config)
\* refers to; `aliased` says that a download worker holds that very object,
\* and `started_with` is the history of the values it had when the worker
\* was created.
LoaderEntry(frontend, file) ==
    loader = [file |-> file, frontend |-> frontend, pc |-> "start",
              op |-> "none", outcome |-> "none", loaded |-> DefaultConfig,
              aliased |-> FALSE, started_with |-> DefaultConfig]

\* The download command has been invoked and has done nothing yet.
CliEntry ==
    cli = [pc |-> "start", total |-> 0, selected |-> 0, started |-> 0,
           failed |-> 0, download_phase |-> FALSE, exit_code |-> 0,
           reason |-> "none"]

\* No image unit has been created, and nothing is on disk.
FilesIdle ==
    /\ image_task = [progress |-> FALSE, completed |-> 0, pc |-> << >>,
                     file |-> << >>, result |-> << >>]
    /\ disk = [chapters |-> << >>]

\* No front end is being followed; config.json is as given.
LoaderIdle(file) == LoaderEntry("cli", file) /\ CliEntry /\ FilesIdle

\* Nothing outside the batch and the wrapped call is being followed.
ExtraIdle ==
    /\ NamingIdle
    /\ PostIdle("images")
    /\ ParserEntry(0)
    /\ BridgeInit
    /\ LoaderIdle(MissingFile)

\* No batch is being followed: a one-chapter CLI call that has not begun.
CallIdle ==
    /\ mode = "cli"
    /\ N = 1
    /\ config = [max_chapter_workers |-> 1, max_image_workers |-> 1]

\* A batch that has not begun. The worker limits are whatever the Config
\* holds: Config.from_dict and the GUI setters accept any integer; 0 stands
\* for the values ThreadPoolExecutor rejects.
BatchIdle ==
    /\ pc = "start"
    /\ submitted = 0
    /\ cancelled = FALSE
    /\ unit = [c \in 1..MaxChapters |-> "unsubmitted"]
    /\ image_urls = [c \in 1..MaxChapters |-> 0]
    /\ img = [c \in 1..MaxChapters |-> << >>]
    /\ successful_downloads = [c \in 1..MaxChapters |-> 0]
    /\ future = [c \in 1..MaxChapters |-> Pending]
    /\ collected = {}
    /\ successful = 0
    /\ failed = 0
    /\ results = << >>
    /\ chapter = 0
    /\ cancelPhase = "none"
    /\ cancelUnit = [c \in 1..MaxChapters |-> "none"]
    /\ images_ok = [c \in 1..MaxChapters |-> 0]
    /\ chapter_fault = [c \in 1..MaxChapters |-> FALSE]

Init ==
    /\ mode \in {"cli", "gui"}
    /\ N \in 1..MaxChapters
    /\ config \in [max_chapter_workers : 0..MaxWorkers,
                   max_image_workers : 0..MaxWorkers]
    /\ BatchIdle
    /\ RetryIdle
    /\ ExtraIdle

\* ------------------------------------------------------- the orchestrator
\* Entering the `with ThreadPoolExecutor(max_workers=...)` block: the
\* constructor raises ValueError for max_workers <= 0.
OpenPool ==
    /\ pc = "start"
    /\ pc' = IF ChapterPoolLimit <= 0 THEN "error" ELSE "submit"
    /\ UNCHANGED << submitted, collected, successful, failed, results, chapter >>
    /\ UNCHANGED << callVars, cancelled, unitVars, histVars, nonBatchVars >>

\* Fault: a submission loop that never looks at the flag.
SubmitLoopNeverBreaks == FALSE

\* The GUI submission loop's `if self._is_cancelled: break`.
SubmitLoopBreaks == mode = "gui" /\ cancelled

\* One iteration of the submission loop: executor.submit(...). After the
\* last chapter the orchestrator enters the as_completed loop.
Submit ==
    /\ pc = "submit"
    /\ submitted < N
    /\ ~SubmitLoopBreaks
    /\ submitted' = submitted + 1
    /\ unit' = [unit EXCEPT ![submitted + 1] = "queued"]
    /\ pc' = IF submitted + 1 = N THEN "collect" ELSE "submit"
    /\ UNCHANGED << collected, successful, failed, results, chapter >>
    /\ UNCHANGED << image_urls, img, successful_downloads, future >>
    /\ UNCHANGED << callVars, cancelled, histVars, nonBatchVars >>

\* The GUI leaves the submission loop; as_completed over no futures ends
\* at once.
SubmitBreak ==
    /\ pc = "submit"
    /\ submitted < N
    /\ SubmitLoopBreaks
    /\ pc' = IF submitted = 0 THEN "exit" ELSE "collect"
    /\ UNCHANGED << submitted, collected, successful, failed, results, chapter >>
    /\ UNCHANGED << callVars, cancelled, unitVars, histVars, nonBatchVars >>

\* MangaBridge.cancelDownload -> DownloadWorker.cancel, from the UI thread,
\* while the worker thread is running.
Cancel ==
    /\ mode = "gui"
    /\ pc \notin {"done", "error"}
    /\ ~cancelled
    /\ cancelled' = TRUE
    /\ cancelPhase' = pc
    /\ cancelUnit' = [c \in 1..MaxChapters |->
                         IF unit[c] \in {"page", "images", "finished"}
                         THEN "started"
                         ELSE unit[c]]
    /\ UNCHANGED << images_ok, chapter_fault >>
    /\ UNCHANGED << callVars, orchVars, unitVars, nonBatchVars >>

\* ------------------------------------------------------ the chapter unit
\* A pool worker takes the next queued chapter when fewer than max_workers
\* units are executing.
\* Fault: a pool whose workers never take a work item.
ChapterWorkerNeverFree == FALSE

ChapterWorkerFree == Cardinality(Executing) < ChapterPoolLimit

\* Fault: a unit that does not look at the flag.
EntryNeverSeesCancel == FALSE

\* DownloadWorker._download_single_chapter's entry check (GUI only).
EntrySeesCancel == mode = "gui" /\ cancelled

StartUnit(c) ==
    /\ pc \in {"submit", "collect", "tally", "exit"}
    /\ HeadOfChapterQueue(c)
    /\ ChapterWorkerFree
    /\ IF EntrySeesCancel
       THEN /\ unit' = [unit EXCEPT ![c] = "finished"]
            /\ future' = [future EXCEPT ![c] = Absent]
       ELSE /\ unit' = [unit EXCEPT ![c] = "page"]
            /\ UNCHANGED future
    /\ UNCHANGED << image_urls, img, successful_downloads >>
    /\ UNCHANGED << callVars, orchVars, cancelled, histVars, nonBatchVars >>

\* What scrape_chapter_images can raise: RetryError (retries exhausted), or
\* an error the retry wrapper does not catch.
ScrapeErrors == {"RetryError", "Error"}

\* What a chapter unit meets: the page fetch raises, or the page holds k
\* image URLs and, when k > 0, creating the chapter folder works or fails.
ChapterInputs ==
    [scrapeExc : ScrapeErrors, k : {0}, mkdirFails : {FALSE}]
    \cup [scrapeExc : {"None"}, k : {0}, mkdirFails : {FALSE}]
    \cup [scrapeExc : {"None"}, k : 1..MaxImages, mkdirFails : BOOLEAN]

\* download_chapter_images up to the image pool: the outcome when the unit
\* ends before any image is submitted, Pending when it goes on.
BeforeImages(scrapeExc, k, mkdirFails) ==
    IF scrapeExc # "None" THEN Raised
    ELSE IF k = 0
         THEN Returned(DownloadResult(FALSE, "None",
                                      "No images found in chapter", 0))
    ELSE IF mkdirFails THEN Raised
    ELSE IF ImagePoolLimit <= 0 THEN Raised
    ELSE Pending

\* download_chapter_images' `except Exception as e`.
DownloadChapterImagesExcept(out) ==
    IF out.kind = "exception"
    THEN Returned(DownloadResult(FALSE, "None", "str(e)", 0))
    ELSE out

\* The chapter-page fetch returns or raises; the unit then either ends or
\* creates its folder and submits every image to its own pool.
PageDone(c) ==
    /\ unit[c] = "page"
    /\ \E in \in ChapterInputs :
         LET out == BeforeImages(in.scrapeExc, in.k, in.mkdirFails) IN
         /\ image_urls' = [image_urls EXCEPT ![c] = in.k]
         /\ chapter_fault' = [chapter_fault EXCEPT ![c] = out.kind = "exception"]
         /\ IF out.kind = "pending"
            THEN /\ img' = [img EXCEPT ![c] =
                              Dispatch([i \in 1..in.k |-> "queued"])]
                 /\ unit' = [unit EXCEPT ![c] = "images"]
                 /\ UNCHANGED future
            ELSE /\ future' = [future EXCEPT ![c] =
                                 DownloadChapterImagesExcept(out)]
                 /\ unit' = [unit EXCEPT ![c] = "finished"]
                 /\ UNCHANGED img
    /\ UNCHANGED << successful_downloads, cancelPhase, cancelUnit, images_ok >>
    /\ UNCHANGED << callVars, orchVars, cancelled, nonBatchVars >>

\* -------------------------------------------------------- the image unit
\* What can go wrong inside download_image's try block: the fetch raises
\* (retries exhausted, or an uncaught error), the directory cannot be
\* created, the file cannot be written.
ImageFaults == {"RetryError", "Error", "mkdir", "write"}

\* The try block of download_image: True, or an exception.
DownloadImageTry(fault) == IF fault = "none" THEN "True" ELSE "exception"

\* Fault: download_image without its except clause.
DownloadImageNoExcept(out) == out

\* download_image's `except Exception as e: ... return False`.
DownloadImageExcept(out) == IF out = "exception" THEN "False" ELSE out

\* Fault: the tally counts every completed image future.
TallyEveryFuture(out) == 1

\* One pass of download_chapter_images' as_completed loop:
\* `if future.result(): successful_downloads += 1`, `except Exception: pass`.
TallyImage(out) == IF out = "True" THEN 1 ELSE 0

ImagesResolved(images) ==
    \A i \in 1..Len(images) : images[i] \notin {"queued", "fetching"}

\* Fault: success as soon as one image was saved.
ChapterResultAnyImage(n_ok, n_urls) ==
    DownloadResult(n_ok > 0, "chapter_path", "None", n_ok)

\* The DownloadResult download_chapter_images builds after its image pool.
ChapterResult(n_ok, n_urls) ==
    DownloadResult(n_ok = n_urls, "chapter_path", "None", n_ok)

\* An image download ends, and frees its worker for the next queued image;
\* download_chapter_images' as_completed loop tallies it, and after the last
\* one the unit returns its DownloadResult (its executor, futures and tally
\* are locals and die with the call).
ImgDone(c, i) ==
    /\ unit[c] = "images"
    /\ i \in 1..Len(img[c])
    /\ img[c][i] = "fetching"
    /\ \E o \in {[ok |-> fault = "none",
                  out |-> DownloadImageExcept(DownloadImageTry(fault))] :
                    fault \in ImageFaults \cup {"none"}} :
         LET images == Dispatch([img[c] EXCEPT ![i] = o.out])
             n_ok == successful_downloads[c] + TallyImage(o.out)
         IN
         /\ images_ok' = [images_ok EXCEPT ![c] = @ + (IF o.ok THEN 1 ELSE 0)]
         /\ IF ImagesResolved(images)
            THEN /\ img' = [img EXCEPT ![c] = << >>]
                 /\ successful_downloads' =
                       [successful_downloads EXCEPT ![c] = 0]
                 /\ future' = [future EXCEPT ![c] =
                                 DownloadChapterImagesExcept(
                                   Returned(ChapterResult(n_ok, image_urls[c])))]
                 /\ unit' = [unit EXCEPT ![c] = "finished"]
            ELSE /\ img' = [img EXCEPT ![c] = images]
                 /\ successful_downloads' =
                       [successful_downloads EXCEPT ![c] = n_ok]
                 /\ UNCHANGED << future, unit >>
    /\ UNCHANGED << image_urls, cancelPhase, cancelUnit, chapter_fault >>
    /\ UNCHANGED << callVars, orchVars, cancelled, nonBatchVars >>

\* ------------------------------------------------ collecting the futures
\* Fault: a collection loop that never looks at the flag.
CollectLoopNeverBreaks == FALSE

\* The GUI collection loop's `if self._is_cancelled: break`.
CollectLoopBreaks == mode = "gui" /\ cancelled

\* download_chapters: the entry one as_completed pass appends to results
\* (the CLI's on_complete callback returns normally).
CliCollected(f) ==
    IF f.kind = "result"
    THEN f.result
    ELSE DownloadResult(FALSE, "None", "str(e)", 0)

\* Fault: every unit that returned a result is counted as successful.
GuiCountsEveryResult(f) == f.kind = "result"

\* DownloadWorker.run: `if result and result.success`.
GuiCountsSuccess(f) == f.kind = "result" /\ f.result.success

\* One pass of the as_completed loop over a future that has resolved; the
\* loop ends after the last future, or at the GUI's break.
Collect(c) ==
    /\ pc = "collect"
    /\ c \in 1..submitted
    /\ c \notin collected
    /\ future[c].kind # "pending"
    /\ IF CollectLoopBreaks
       THEN /\ pc' = "exit"
            /\ UNCHANGED << collected, successful, failed, results >>
       ELSE /\ collected' = collected \cup {c}
            /\ pc' = IF collected' = 1..submitted THEN "exit" ELSE "collect"
            /\ IF mode = "gui"
               THEN /\ successful' = successful +
                          (IF GuiCountsSuccess(future[c]) THEN 1 ELSE 0)
                    /\ failed' = failed +
                          (IF GuiCountsSuccess(future[c]) THEN 0 ELSE 1)
                    /\ UNCHANGED results
               ELSE /\ results' = Append(results, CliCollected(future[c]))
                    /\ UNCHANGED << successful, failed >>
    /\ UNCHANGED << submitted, chapter >>
    /\ UNCHANGED << callVars, cancelled, unitVars, histVars, nonBatchVars >>

\* Fault: the pool shut down without waiting for its work items.
ExecutorNotJoined == TRUE

\* Leaving the `with ThreadPoolExecutor` block: shutdown(wait=True) returns
\* once every submitted work item has run.
ExecutorJoined == \A c \in 1..submitted : unit[c] = "finished"

\* download_chapters returns results / DownloadWorker.run emits finished.
Finish ==
    /\ pc = "exit"
    /\ ExecutorJoined
    /\ pc' = "done"
    /\ UNCHANGED << submitted, collected, successful, failed, results, chapter >>
    /\ UNCHANGED << callVars, cancelled, unitVars, histVars, nonBatchVars >>

Next ==
    \/ OpenPool
    \/ Submit
    \/ SubmitBreak
    \/ Cancel
    \/ \E c \in Chapters : StartUnit(c)
    \/ \E c \in Chapters : PageDone(c)
    \/ \E c \in Chapters, i \in 1..MaxImages : ImgDone(c, i)
    \/ \E c \in Chapters : Collect(c)
    \/ Finish

Spec == Init /\ [][Next]_vars

\* ------------------------------------------------------------ termination
\* A batch whose pools can be created.
InitLive ==
    /\ mode \in {"cli", "gui"}
    /\ N \in 1..MaxLiveChapters
    /\ config \in [max_chapter_workers : 1..MaxWorkers,
                   max_image_workers : 1..MaxWorkers]
    /\ BatchIdle
    /\ RetryIdle
    /\ ExtraIdle

\* The steps of the orchestrating thread and of the pool workers; every
\* fetch returns or fails (requests.get has a timeout). The user's cancel
\* is not among them: it may never come.
ThreadSteps ==
    \/ OpenPool
    \/ Submit
    \/ SubmitBreak
    \/ \E c \in Chapters : StartUnit(c)
    \/ \E c \in Chapters : PageDone(c)
    \/ \E c \in Chapters, i \in 1..MaxImages : ImgDone(c, i)
    \/ \E c \in Chapters : Collect(c)
    \/ Finish

\* The threads are scheduled fairly.
SpecLive == InitLive /\ [][Next]_vars /\ WF_vars(ThreadSteps)

\* ---------------------------------------------------- batch properties
\* C1: in every reachable state of a batch over N chapters with
\* chapter-worker limit W, at most min(N, W) chapter units are executing.
C1_ExecutingAtMostMinNW ==
    /\ Cardinality(Executing) <= N
    /\ Cardinality(Executing) <= config.max_chapter_workers

\* The pool is full while a submitted chapter waits for a worker.
C1_PoolFullWhileQueued ==
    /\ N > config.max_chapter_workers
    /\ config.max_chapter_workers >= 1
    /\ Cardinality(Executing) = config.max_chapter_workers
    /\ \E c \in Chapters : unit[c] = "queued"

\* C2 as stated: the HTTP requests in flight never exceed
\* max_chapter_workers * max_image_workers. Fails for a Config whose
\* max_image_workers is not positive: the chapter-page fetch is in flight.
C2_InFlightAtMostProduct ==
    InFlight <= config.max_chapter_workers * config.max_image_workers

C4_CooperativeCancel ==
    [][ /\ (~cancelled /\ cancelled') => UNCHANGED unitVars
        /\ \A c \in Chapters : \A i \in Fetching(img[c]) :
              \/ /\ i \in 1..Len(img'[c])
                 /\ img'[c][i] \in {"fetching", "True", "False"}
              \/ /\ Fetching(img[c]) = {i}
                 /\ unit'[c] = "finished"
                 /\ future'[c].kind = "result"
        /\ (pc # "done" /\ pc' = "done") =>
              /\ \A c \in 1..submitted' :
                    unit'[c] = "finished" /\ future'[c].kind # "pending"
              /\ \A c \in Chapters : Fetching(img'[c]) = {}
              /\ \A c \in Chapters :
                    cancelUnit'[c] = "started" => future'[c].kind = "result"
      ]_vars

\* After a cancel the orchestrator has left its loops and waits at the
\* pool's exit while a unit that had started before the cancel has one image
\* saved and another image fetch still running.
C4_InFlightAfterCancel ==
    /\ pc = "exit"
    /\ cancelled
    /\ \E c \in Chapters :
          /\ cancelUnit[c] = "started"
          /\ Fetching(img[c]) # {}
          /\ successful_downloads[c] = 1

\* C5: a chapter with k >= 1 image URLs of which j downloads succeeded
\* returns success = false and images_count = j when j < k, and
\* success = true when j = k.
C5_SuccessIffAllImages ==
    \A c \in Chapters :
        (future[c].kind = "result" /\ image_urls[c] >= 1) =>
            LET k == image_urls[c]
                j == images_ok[c]
                r == future[c].result
            IN /\ j < k => (~r.success /\ r.images_count = j)
               /\ j = k => r.success

\* One chapter ended with some but not all images saved, another with all.
C5_PartialAndComplete ==
    \E c, d \in Chapters :
        /\ future[c].kind = "result" /\ future[d].kind = "result"
        /\ image_urls[c] = 2 /\ images_ok[c] = 1
        /\ image_urls[d] = 2 /\ images_ok[d] = 2

\* C6: every DownloadResult with success = true, in a chapter future or in
\* the list download_chapters returns, has a path and an images_count equal
\* to the number of image URLs of its chapter.
C6_SuccessHasPathAndAllImages ==
    /\ \A c \in Chapters :
          (future[c].kind = "result" /\ future[c].result.success) =>
              /\ future[c].result.path # "None"
              /\ future[c].result.images_count = image_urls[c]
    /\ \A n \in 1..Len(results) :
          results[n].success =>
              /\ results[n].path # "None"
              /\ \E c \in collected :
                    /\ future[c].kind = "result"
                    /\ results[n] = future[c].result
                    /\ results[n].images_count = image_urls[c]

\* download_chapters returned a list holding a successful result next to
\* results built on the no-images and the caught-exception paths.
C6_SuccessAmongFailures ==
    /\ pc = "done"
    /\ \E n \in 1..Len(results) :
          results[n].success /\ results[n].images_count = MaxImages
    /\ \E n \in 1..Len(results) :
          ~results[n].success /\ results[n].error # "None"

\* C10: failures stay inside their unit. No image future and no chapter
\* future ever holds an exception; a chapter unit that met an exception
\* returned a DownloadResult with success = false and an error message; and
\* when the batch ends without a cancel every chapter has its own result,
\* one per chapter in the list download_chapters returns.
C10_FailureContainment ==
    /\ \A c \in Chapters : \A i \in 1..Len(img[c]) : img[c][i] # "exception"
    /\ \A c \in Chapters :
          /\ future[c].kind # "exception"
          /\ (chapter_fault[c] /\ unit[c] = "finished") =>
                /\ future[c].kind = "result"
                /\ ~future[c].result.success
                /\ future[c].result.error # "None"
    /\ (pc = "done" /\ ~cancelled) =>
          /\ \A c \in Chapters : future[c].kind = "result"
          /\ mode = "cli" => Len(results) = N
          /\ mode = "gui" => successful + failed = N

\* The batch ended with one chapter failed by an exception, and a sibling
\* that lost one image to a failed download and saved the other.
C10_FaultBesideSibling ==
    /\ pc = "done"
    /\ \E c, d \in Chapters :
          /\ chapter_fault[c]
          /\ ~chapter_fault[d]
          /\ image_urls[d] = 2
          /\ future[d].result.images_count = 1

C13_CountsMatchChapters ==
    LET complete == {c \in Chapters :
                       image_urls[c] >= 1 /\ images_ok[c] = image_urls[c]}
        ok == {n \in 1..Len(results) : results[n].success}
    IN (pc = "done" /\ ~cancelled) =>
          /\ mode = "gui" =>
                /\ successful = Cardinality(complete)
                /\ failed = N - Cardinality(complete)
          /\ mode = "cli" =>
                /\ Cardinality(ok) = Cardinality(complete)
                /\ Len(results) - Cardinality(ok) = N - Cardinality(complete)

\* Two chapters of two images each with two workers of each kind: one
\* chapter saved both images, the other lost one, whichever ended first.
C13_OneOfTwoSucceeded ==
    /\ pc = "done"
    /\ ~cancelled
    /\ mode = "gui"
    /\ N = 2
    /\ config = [max_chapter_workers |-> 2, max_image_workers |-> 2]
    /\ \A c \in Chapters : image_urls[c] = 2
    /\ images_ok[1] = 1
    /\ images_ok[2] = 2
    /\ successful = 1
    /\ failed = 1

\* ------------------------------------------------------ the retry wrapper
\* The exceptions a wrapped fetch is modelled to raise, each with the
\* classes it is an instance of (Python's `except` matches by isinstance).
\* HTTPError is raise_for_status() on a non-2xx response; ConnectionError is
\* the one of requests, ConnectionResetError the builtin raised by a socket;
\* MissingSchema is what requests raises for a URL it cannot parse, before
\* any network traffic; AttributeError stands for a programming error.
Bases(e) ==
    CASE e = "HTTPError" -> {"HTTPError", "RequestException", "OSError", "Exception"}
      [] e = "Timeout" -> {"Timeout", "RequestException", "OSError", "Exception"}
      [] e = "ConnectionError" ->
             {"requests.ConnectionError", "RequestException", "OSError", "Exception"}
      [] e = "TimeoutError" -> {"TimeoutError", "OSError", "Exception"}
      [] e = "ConnectionResetError" ->
             {"ConnectionResetError", "ConnectionError", "OSError", "Exception"}
      [] e = "MissingSchema" ->
             {"MissingSchema", "RequestException", "OSError", "ValueError",
              "Exception"}
      [] e = "AttributeError" -> {"AttributeError", "Exception"}

ErrorClasses == {"HTTPError", "Timeout", "ConnectionError", "TimeoutError",
                 "ConnectionResetError", "MissingSchema", "AttributeError"}

\* Fault: with_retry's own default, exceptions=(Exception,).
RetryEveryException == {"Exception"}

\* The exceptions tuple retry_request hands to with_retry.
RetryRequestExceptions ==
    {"RequestException", "Timeout", "requests.ConnectionError",
     "ConnectionError", "TimeoutError"}

\* `except exceptions as e`
Catches(exceptions, e) == Bases(e) \cap exceptions # {}

\* Fault: range(max_retries), one pass short.
AttemptsWithoutFirst(retries) == retries

\* `for attempt in range(max_retries + 1)`: the number of passes.
Attempts(retries) == retries + 1

\* Fault: the exponent counted from 1.
DelayFromOne(base, n) == base * (2 ^ (n + 1))

\* `delay = base_delay * (2 ** attempt)`
Delay(base, n) == base * (2 ^ n)

\* One wrapped call, from its first attempt.
InitRetry ==
    /\ max_retries \in 0..MaxRetries
    /\ base_delay \in 1..MaxDelay
    /\ behaviour \in [1..(MaxRetries + 1) -> ErrorClasses \cup {"ok"}]
    /\ attempt = 0
    /\ calls = 0
    /\ sleeps = << >>
    /\ last_exception = "None"
    /\ outcome = [kind |-> "pending", exc |-> "None", cause |-> "None"]
    /\ mode = "cli"
    /\ N = 1
    /\ config = [max_chapter_workers |-> 1, max_image_workers |-> 1]
    /\ BatchIdle
    /\ ExtraIdle

\* One pass of the wrapper's loop: the call returns, raises an exception the
\* wrapper does not catch, or raises one it catches, and then the wrapper
\* sleeps unless this was the last pass.
RetryAttempt ==
    /\ outcome.kind = "pending"
    /\ attempt < Attempts(max_retries)
    /\ calls' = calls + 1
    /\ LET r == behaviour[calls + 1] IN
       IF r = "ok"
       THEN /\ outcome' = [kind |-> "return", exc |-> "None", cause |-> "None"]
            /\ UNCHANGED << attempt, sleeps, last_exception >>
       ELSE IF Catches(RetryRequestExceptions, r)
       THEN /\ last_exception' = r
            /\ sleeps' = IF attempt < max_retries
                         THEN Append(sleeps, Delay(base_delay, attempt))
                         ELSE sleeps
            /\ attempt' = attempt + 1
            /\ UNCHANGED outcome
       ELSE /\ outcome' = [kind |-> "raise", exc |-> r, cause |-> "None"]
            /\ UNCHANGED << attempt, sleeps, last_exception >>
    /\ UNCHANGED << max_retries, base_delay, behaviour >>
    /\ UNCHANGED nonRetryVars

\* The loop is exhausted: `raise RetryError(...) from last_exception`.
RetryExhausted ==
    /\ outcome.kind = "pending"
    /\ attempt >= Attempts(max_retries)
    /\ outcome' = [kind |-> "raise", exc |-> "RetryError",
                   cause |-> last_exception]
    /\ UNCHANGED << max_retries, base_delay, behaviour, attempt, calls,
                    sleeps, last_exception >>
    /\ UNCHANGED nonRetryVars

NextRetry ==
    \/ RetryAttempt
    \/ RetryExhausted

SpecRetry == InitRetry /\ [][NextRetry]_vars

\* ---------------------------------------------------- retry properties
\* C7: when the first f calls fail with an error the wrapper retries and
\* call f+1 succeeds, with max_retries >= f, the wrapped call returns after
\* exactly f+1 calls, having slept D*2^0, D*2^1, ..., D*2^(f-1) in that
\* order (no sleep when f = 0); until then it has made at most f+1 calls.
C7_ReturnsAfterFFailures ==
    \A f \in 0..MaxRetries :
        ( /\ f <= max_retries
          /\ \A n \in 1..f : /\ behaviour[n] # "ok"
                             /\ Catches(RetryRequestExceptions, behaviour[n])
          /\ behaviour[f + 1] = "ok" ) =>
            /\ calls <= f + 1
            /\ outcome.kind \in {"pending", "return"}
            /\ outcome.kind = "return" =>
                  /\ calls = f + 1
                  /\ sleeps = [n \in 1..f |-> base_delay * (2 ^ (n - 1))]

\* Two failures, then success: three calls, sleeps of D and 2D.
C7_ThirdCallReturns ==
    /\ outcome.kind = "return"
    /\ calls = 3
    /\ base_delay = 2
    /\ sleeps = << 2, 4 >>

\* C8: when the first max_retries+1 calls all fail with an error the
\* wrapper retries, the wrapped call raises RetryError carrying the error of
\* the last call, after exactly max_retries+1 calls and never more.
C8_RetryErrorAfterAllAttempts ==
    ( \A n \in 1..(max_retries + 1) :
          /\ behaviour[n] # "ok"
          /\ Catches(RetryRequestExceptions, behaviour[n]) ) =>
        /\ calls <= max_retries + 1
        /\ outcome.kind \in {"pending", "raise"}
        /\ outcome.kind = "raise" =>
              /\ outcome.exc = "RetryError"
              /\ outcome.cause = behaviour[max_retries + 1]
              /\ calls = max_retries + 1
              /\ Len(sleeps) = max_retries

\* Three failing calls with max_retries = 2: RetryError carries the third
\* call's error, which differs from the first call's.
C8_ExhaustedWithLastError ==
    /\ max_retries = 2
    /\ outcome.kind = "raise"
    /\ outcome.exc = "RetryError"
    /\ calls = 3
    /\ behaviour[1] = "HTTPError"
    /\ outcome.cause = "Timeout"

\* C9 as stated: a call that fails with an error outside the
\* network/timeout class (non-2xx status included in the class) is the last
\* call: the error propagates at once, with no sleep after it.
C9_OnlyNetworkClassRetried ==
    \A n \in 1..calls :
        behaviour[n] \notin {"ok", "HTTPError", "Timeout", "ConnectionError",
                          "TimeoutError", "ConnectionResetError"} =>
            /\ n = calls
            /\ outcome.kind = "raise"
            /\ outcome.exc = behaviour[n]
            /\ Len(sleeps) = n - 1

\* C9, amended: the retried errors are the instances of
\* requests.RequestException (which include the URL errors that are also
\* ValueErrors), of the builtin ConnectionError and of TimeoutError. A call
\* that fails with one of these never propagates it as such; a call that
\* fails with any other error is the last call: the error propagates at
\* once, with no sleep after it.
C9_RequestExceptionsRetried ==
    \A n \in 1..calls :
        behaviour[n] # "ok" =>
            IF Bases(behaviour[n])
                   \cap {"RequestException", "ConnectionError", "TimeoutError"}
                   # {}
            THEN /\ outcome.exc # behaviour[n]
                 /\ n < calls => Len(sleeps) >= n
            ELSE /\ n = calls
                 /\ outcome.kind = "raise"
                 /\ outcome.exc = behaviour[n]
                 /\ Len(sleeps) = n - 1

\* A URL error was retried after a sleep, and the programming error of the
\* second call propagated at once.
C9_UrlErrorRetried ==
    /\ behaviour[1] = "MissingSchema"
    /\ behaviour[2] = "AttributeError"
    /\ calls = 2
    /\ Len(sleeps) = 1
    /\ outcome.kind = "raise"
    /\ outcome.exc = "AttributeError"

\* ------------------------------------------------------ image filenames
\* Characters are one-character strings; Ord is their code point, for the
\* characters that occur.
Ord(ch) ==
    CASE ch = "." -> 46
      [] ch = "0" -> 48 [] ch = "1" -> 49 [] ch = "2" -> 50 [] ch = "3" -> 51
      [] ch = "4" -> 52 [] ch = "5" -> 53 [] ch = "6" -> 54 [] ch = "7" -> 55
      [] ch = "8" -> 56 [] ch = "9" -> 57
      [] ch = "g" -> 103 [] ch = "j" -> 106 [] ch = "n" -> 110
      [] ch = "p" -> 112

DigitChar(d) ==
    CASE d = 0 -> "0" [] d = 1 -> "1" [] d = 2 -> "2" [] d = 3 -> "3"
      [] d = 4 -> "4" [] d = 5 -> "5" [] d = 6 -> "6" [] d = 7 -> "7"
      [] d = 8 -> "8" [] d = 9 -> "9"

RECURSIVE Decimal(_)
\* str(n) for n >= 0
Decimal(n) ==
    IF n < 10
    THEN << DigitChar(n) >>
    ELSE Decimal(n \div 10) \o << DigitChar(n % 10) >>

\* The minimum field width of the format spec `03d`.
FilenameWidth == 3

RECURSIVE ZeroFill(_, _)
\* Zero padding to a minimum width; longer strings are left alone.
ZeroFill(str, width) ==
    IF Len(str) >= width THEN str ELSE ZeroFill(<< "0" >> \o str, width)

\* Fault: the sequence number written without padding.
FormatUnpadded(i) == Decimal(i)

\* f"{i:03d}"
Format03d(i) == ZeroFill(Decimal(i), FilenameWidth)

\* The last component of the URL paths an image can have.
UrlPaths ==
    { << "p" >>,
      << "p", ".", "j", "p", "g" >>,
      << "p", ".", "p", "n", "g" >>,
      << "p", "." >>,
      << ".", "p" >> }

\* os.path.splitext(path)[1]: from the last dot on, unless there is no dot
\* or only dots come before it.
SplitExt(path) ==
    LET dots == {n \in 1..Len(path) : path[n] = "."} IN
    IF dots = {} THEN << >>
    ELSE LET last == CHOOSE n \in dots : \A m \in dots : m <= n IN
         IF \A m \in 1..(last - 1) : path[m] = "."
         THEN << >>
         ELSE SubSeq(path, last, Len(path))

\* ext = os.path.splitext(urlparse(url).path)[1] or ".jpg";
\* filename = f"{i:03d}{ext}"
Filename(i, path) ==
    Format03d(i) \o
        (IF SplitExt(path) = << >> THEN << ".", "j", "p", "g" >>
                                  ELSE SplitExt(path))

RECURSIVE LexLess(_, _)
\* str.__lt__: the lexicographic order in which a directory listing sorts.
LexLess(a, b) ==
    IF b = << >> THEN FALSE
    ELSE IF a = << >> THEN TRUE
    ELSE IF Ord(Head(a)) # Ord(Head(b)) THEN Ord(Head(a)) < Ord(Head(b))
    ELSE LexLess(Tail(a), Tail(b))

\* download_chapter_images' submission loop has named no image yet.
InitNaming ==
    /\ NamingIdle
    /\ PostIdle("images")
    /\ ParserEntry(0)
    /\ BridgeInit
    /\ LoaderIdle(MissingFile)
    /\ CallIdle
    /\ BatchIdle
    /\ RetryIdle

\* One pass of `for i, url in enumerate(image_urls, start=1)`: the next
\* URL gets its filename.
NameNext ==
    /\ naming.i < MaxUrls
    /\ \E path \in UrlPaths :
         LET name == Filename(naming.i + 1, path) IN
         naming' = [i |-> naming.i + 1,
                    filename |-> name,
                    prev |-> naming.filename,
                    first |-> IF naming.i = 0 THEN name ELSE naming.first]
    /\ UNCHANGED << batchVars, retryVars, post, parser, bridge, loader, cli, image_task, disk >>

NextNaming == NameNext

SpecNaming == InitNaming /\ [][NextNaming]_vars

\* C11: in a list of at most 999 image URLs, whatever their extensions, the
\* filename of every image sorts strictly after the filename of the image
\* before it and after the first image's (the order is a strict total order,
\* so the filenames are pairwise distinct and sort in list order); the
\* filename is a function of the position and the URL alone.
C11_FilenamesSortInListOrder ==
    (naming.i >= 2 /\ naming.i <= 999) =>
        /\ LexLess(naming.prev, naming.filename)
        /\ LexLess(naming.first, naming.filename)
        /\ ~LexLess(naming.filename, naming.prev)
        /\ \E path \in UrlPaths : naming.filename = Filename(naming.i, path)

\* The hundredth image, a URL without extension, after a .png.
C11_HundredAfterNinetyNine ==
    /\ naming.i = 100
    /\ naming.prev = << "0", "9", "9", ".", "p", "n", "g" >>
    /\ naming.filename = << "1", "0", "0", ".", "j", "p", "g" >>

\* ------------------------------------------------------ post-processing
\* The batch with each download_chapter_images call taken as one step, and
\* the PDF/CBZ conversions: the GUI converts inside the chapter unit, the
\* CLI in a loop after download_chapters has returned.
OutputFormats == {"images", "pdf", "cbz"}

\* What a download_chapter_images call returns, in short: every image
\* saved, or a failure.
DownloadOutcomes ==
    { DownloadResult(TRUE, "chapter_path", "None", 1),
      DownloadResult(FALSE, "chapter_path", "None", 0),
      DownloadResult(FALSE, "None", "str(e)", 0) }

\* Fault: conversion of every result that has a folder.
NeedsConversionOfAnyFolder(r) ==
    /\ r.path # "None"
    /\ post.output_format \in {"pdf", "cbz"}

\* `if result.success and result.path` and the format asks for a file.
NeedsConversion(r) ==
    /\ r.success
    /\ r.path # "None"
    /\ post.output_format \in {"pdf", "cbz"}

InitPost ==
    /\ mode \in {"cli", "gui"}
    /\ N \in 1..MaxChapters
    /\ config \in [max_chapter_workers : 1..MaxWorkers,
                   max_image_workers : {1}]
    /\ BatchIdle
    /\ RetryIdle
    /\ NamingIdle
    /\ ParserEntry(0)
    /\ BridgeInit
    /\ LoaderIdle(MissingFile)
    /\ \E format \in OutputFormats : PostIdle(format)

\* manager.download_chapter_images returns. In the GUI the unit goes on to
\* convert_to_pdf / convert_to_cbz when the result asks for it; otherwise
\* the unit returns the result.
DownloadReturns(c) ==
    /\ unit[c] = "page"
    /\ \E r \in DownloadOutcomes :
         IF mode = "gui" /\ NeedsConversion(r)
         THEN /\ unit' = [unit EXCEPT ![c] = "converting"]
              /\ post' = [post EXCEPT !.result[c] = r,
                                      !.converting = @ \cup {c}]
              /\ UNCHANGED future
         ELSE /\ unit' = [unit EXCEPT ![c] = "finished"]
              /\ post' = [post EXCEPT !.result[c] = r]
              /\ future' = [future EXCEPT ![c] = Returned(r)]
    /\ UNCHANGED << image_urls, img, successful_downloads >>
    /\ UNCHANGED << callVars, orchVars, cancelled, histVars, retryVars, naming,
                    parser, bridge, loader, cli, image_task, disk >>

\* The GUI unit's conversion returns (a path, or None after a failure it
\* reported itself), and the unit returns (chapter, result).
UnitConvertDone(c) ==
    /\ unit[c] = "converting"
    /\ unit' = [unit EXCEPT ![c] = "finished"]
    /\ future' = [future EXCEPT ![c] = Returned(post.result[c])]
    /\ post' = [post EXCEPT !.converting = @ \ {c},
                            !.converted = @ \cup {c}]
    /\ UNCHANGED << image_urls, img, successful_downloads >>
    /\ UNCHANGED << callVars, orchVars, cancelled, histVars, retryVars, naming,
                    parser, bridge, loader, cli, image_task, disk >>

\* The download command's loop over download_results, the successful
\* chapters its on_complete callback kept: one pass calls the converter.
CliConvertStart(c) ==
    /\ mode = "cli"
    /\ pc = "done"
    /\ post.output_format \in {"pdf", "cbz"}
    /\ post.converting = {}
    /\ c \in collected \ post.converted
    /\ future[c].kind = "result"
    /\ NeedsConversion(future[c].result)
    /\ post' = [post EXCEPT !.converting = {c}]
    /\ UNCHANGED << batchVars, retryVars, naming, parser, bridge, loader, cli, image_task, disk >>

\* The converter called by the loop returns.
CliConvertEnd ==
    /\ mode = "cli"
    /\ pc = "done"
    /\ post.converting # {}
    /\ post' = [post EXCEPT !.converting = {},
                            !.converted = @ \cup post.converting]
    /\ UNCHANGED << batchVars, retryVars, naming, parser, bridge, loader, cli, image_task, disk >>

NextPost ==
    \/ OpenPool
    \/ Submit
    \/ SubmitBreak
    \/ Cancel
    \/ \E c \in Chapters : StartUnit(c)
    \/ \E c \in Chapters : DownloadReturns(c)
    \/ \E c \in Chapters : UnitConvertDone(c)
    \/ \E c \in Chapters : Collect(c)
    \/ Finish
    \/ \E c \in Chapters : CliConvertStart(c)
    \/ CliConvertEnd

SpecPost == InitPost /\ [][NextPost]_vars

\* C12 as stated: a conversion runs only after the batch has produced its
\* outcome, and never beside another conversion or beside a chapter
\* download of the same batch. Fails in the GUI, whose units convert.
C12_ConversionsAfterBatchOneAtATime ==
    /\ Cardinality(post.converting) <= 1
    /\ post.converting # {} =>
          /\ pc = "done"
          /\ \A c \in Chapters : unit[c] # "page"

C20_CancelledEntryDoesNothing ==
    [][ \A c \in Chapters :
          /\ (cancelled /\ unit[c] = "queued" /\ unit'[c] # "queued") =>
                /\ unit'[c] = "finished"
                /\ future'[c] = Absent
                /\ post' = post
                /\ UNCHANGED << image_urls, img, successful_downloads >>
          /\ future'[c].kind = "absent" =>
                /\ post'.result[c] = NoResult
                /\ c \notin post'.converting \cup post'.converted
                /\ unit'[c] = "finished"
      ]_vars

\* The batch ended with one unit that converted its chapter and one unit
\* that met the flag at its entry.
C20_AbsentBesideConverted ==
    /\ pc = "done"
    /\ mode = "gui"
    /\ \E c, d \in Chapters :
          /\ future[c].kind = "absent"
          /\ d \in post.converted
          /\ future[d].kind = "result"

\* ------------------------------------------------- chapter selection
\* The characters a selection is made of here: digits, the dash, the
\* space, and a letter.
Alphabet == {"1", "2", "3", "-", " ", "x"}

\* The strings between the commas of a selection: selection.split(",").
Parts == UNION {[1..n -> Alphabet] : n \in 0..MaxPartLen}

IsDigit(ch) == ch \in {"0", "1", "2", "3", "4", "5", "6", "7", "8", "9"}

DigitValue(ch) == Ord(ch) - Ord("0")

RECURSIVE LStrip(_)
LStrip(str) ==
    IF str # << >> /\ Head(str) = " " THEN LStrip(Tail(str)) ELSE str

RECURSIVE RStrip(_)
RStrip(str) ==
    IF str # << >> /\ str[Len(str)] = " "
    THEN RStrip(SubSeq(str, 1, Len(str) - 1))
    ELSE str

\* part.strip()
Strip(str) == RStrip(LStrip(str))

\* `"-" in part`
HasDash(str) == \E n \in 1..Len(str) : str[n] = "-"

RECURSIVE IntFrom(_, _)
\* int() of a string of digits, digit by digit from the left.
IntFrom(acc, str) ==
    IF str = << >> THEN acc
    ELSE IntFrom(acc * 10 + DigitValue(Head(str)), Tail(str))

\* int(part) succeeds on a non-empty string of digits (surrounding
\* whitespace aside) and raises ValueError on the other strings made of
\* Alphabet.
IntParses(str) ==
    /\ Strip(str) # << >>
    /\ \A n \in 1..Len(Strip(str)) : IsDigit(Strip(str)[n])

IntOf(str) == IntFrom(0, Strip(str))

RECURSIVE DigitsEnd(_, _)
\* The last position of the run of digits that starts at position n
\* (n - 1 when there is none): the greedy \d+.
DigitsEnd(str, n) ==
    IF n <= Len(str) /\ IsDigit(str[n]) THEN DigitsEnd(str, n + 1) ELSE n - 1

RECURSIVE SkipSpaces(_, _)
\* The first position from n on that holds no space: the \s*.
SkipSpaces(str, n) ==
    IF n <= Len(str) /\ str[n] = " " THEN SkipSpaces(str, n + 1) ELSE n

\* re.match(r"(\d+)\s*-\s*(\d+)", part): the pattern is matched at the
\* start of the part, and what follows the match is not looked at.
RangeMatch(str) ==
    LET e1 == DigitsEnd(str, 1)
        dash == SkipSpaces(str, e1 + 1)
        b2 == SkipSpaces(str, dash + 1)
        e2 == DigitsEnd(str, b2)
    IN IF /\ e1 >= 1
          /\ dash <= Len(str)
          /\ str[dash] = "-"
          /\ e2 >= b2
       THEN [matched |-> TRUE, g1 |-> SubSeq(str, 1, e1),
             g2 |-> SubSeq(str, b2, e2)]
       ELSE [matched |-> FALSE, g1 |-> << >>, g2 |-> << >>]

ParseAdds(set) == [kind |-> "add", set |-> set, error |-> "None"]

ParseRaises(error) == [kind |-> "raise", set |-> {}, error |-> error]

\* Fault: the range taken without its first chapter.
RangeIndicesFromStart(start, end) == start..(end - 1)

\* range(start - 1, end)
RangeIndices(start, end) == (start - 1)..(end - 1)

\* The single-chapter branch's try block.
SingleTry(str, total) ==
    IF ~IntParses(str) THEN ParseRaises("ValueError")
    ELSE IF IntOf(str) < 1 \/ IntOf(str) > total
         THEN ParseRaises("Chapter out of bounds")
         ELSE ParseAdds({IntOf(str) - 1})

\* `except ValueError: raise ValueError(f"Invalid chapter number: {part}")`:
\* it catches the out-of-bounds ValueError raised inside the try as well.
SingleExcept(r) ==
    IF r.kind = "raise" THEN ParseRaises("Invalid chapter number") ELSE r

\* The body of `for part in parts`, on the stripped part.
ParsePartBody(str, total) ==
    IF HasDash(str)
    THEN LET match == RangeMatch(str)
             start == IntFrom(0, match.g1)
             end == IntFrom(0, match.g2)
         IN IF ~match.matched THEN ParseRaises("Invalid range")
            ELSE IF start < 1 \/ end > total
                 THEN ParseRaises("Range out of bounds")
            ELSE IF start > end THEN ParseRaises("Invalid range: start > end")
            ELSE ParseAdds(RangeIndices(start, end))
    ELSE SingleExcept(SingleTry(str, total))

RECURSIVE Sorted(_)
\* sorted(indices)
Sorted(set) ==
    IF set = {} THEN << >>
    ELSE LET least == CHOOSE n \in set : \A m \in set : n <= m
         IN << least >> \o Sorted(set \ {least})

\* What the items of a selection mean, read off the documented format
\* "N" or "N-M" (spaces around an item and around the dash allowed).
IsNumeral(str) == str # << >> /\ \A n \in 1..Len(str) : IsDigit(str[n])

RECURSIVE NumeralValue(_)
\* The number a numeral denotes, by place value from the right.
NumeralValue(str) ==
    IF str = << >> THEN 0
    ELSE DigitValue(str[Len(str)])
           + 10 * NumeralValue(SubSeq(str, 1, Len(str) - 1))

\* The item a part is: a single chapter N, a range N-M, or neither.
ItemOf(part) ==
    LET str == Strip(part)
        dashes == {n \in 1..Len(str) : str[n] = "-"}
    IN IF IsNumeral(str)
       THEN [form |-> "single", n |-> NumeralValue(str),
             m |-> NumeralValue(str)]
       ELSE IF Cardinality(dashes) = 1
       THEN LET d == CHOOSE n \in dashes : TRUE
                left == RStrip(SubSeq(str, 1, d - 1))
                right == LStrip(SubSeq(str, d + 1, Len(str)))
            IN IF IsNumeral(left) /\ IsNumeral(right)
               THEN [form |-> "range", n |-> NumeralValue(left),
                     m |-> NumeralValue(right)]
               ELSE [form |-> "malformed", n |-> 0, m |-> 0]
       ELSE [form |-> "malformed", n |-> 0, m |-> 0]

\* What is wrong with an item, if anything.
ItemFault(item, total) ==
    IF item.form = "malformed" THEN "malformed"
    ELSE IF item.n >= 1 /\ item.m <= total /\ item.n > item.m THEN "inverted"
    ELSE IF item.n < 1 \/ item.m < 1 \/ item.n > total \/ item.m > total
         THEN IF item.form = "single" THEN "single out of bounds"
                                      ELSE "range out of bounds"
    ELSE "none"

InitParser ==
    /\ \E total \in 1..MaxTotal : ParserEntry(total)
    /\ BridgeInit
    /\ LoaderIdle(MissingFile)
    /\ NamingIdle
    /\ PostIdle("images")
    /\ CallIdle
    /\ BatchIdle
    /\ RetryIdle

\* One pass of `for part in parts`: the part is stripped and parsed; its
\* indices join the set, or the call raises ValueError.
ParsePart ==
    /\ parser.outcome.kind = "pending"
    /\ parser.k < MaxParts
    /\ \E part \in Parts :
         LET r == ParsePartBody(Strip(part), parser.total)
             item == ItemOf(part)
             fault == ItemFault(item, parser.total)
         IN parser' =
              [parser EXCEPT
                 !.k = @ + 1,
                 !.indices = IF r.kind = "add" THEN @ \cup r.set ELSE @,
                 !.outcome = IF r.kind = "raise"
                             THEN [kind |-> "raise", error |-> r.error,
                                   value |-> << >>]
                             ELSE @,
                 !.named = IF fault = "none" THEN @ \cup (item.n..item.m)
                                             ELSE @,
                 !.mentions = IF fault = "none"
                              THEN @ + (item.m - item.n + 1)
                              ELSE @,
                 !.bad = IF @ = "none" THEN fault ELSE @]
    /\ UNCHANGED << batchVars, retryVars, naming, post, bridge, loader, cli, image_task, disk >>

\* `return sorted(indices)`, after the last part (split yields at least one).
ParseReturn ==
    /\ parser.outcome.kind = "pending"
    /\ parser.k >= 1
    /\ parser' = [parser EXCEPT
                    !.outcome = [kind |-> "return", error |-> "None",
                                 value |-> Sorted(parser.indices)]]
    /\ UNCHANGED << batchVars, retryVars, naming, post, bridge, loader, cli, image_task, disk >>

NextParser ==
    \/ ParsePart
    \/ ParseReturn

SpecParser == InitParser /\ [][NextParser]_vars

\* C14: a selection whose items are all of the form N or N-M with
\* 1 <= N <= M <= total is accepted, and the list returned for it is
\* strictly ascending (sorted, no duplicates), lies within 0..total-1, and
\* holds exactly the indices n-1 of the chapters n its items name.
C14_SelectionYieldsNamedIndices ==
    parser.bad = "none" =>
        /\ parser.outcome.kind # "raise"
        /\ parser.outcome.kind = "return" =>
              LET value == parser.outcome.value IN
              /\ \A n \in 1..(Len(value) - 1) : value[n] < value[n + 1]
              /\ \A n \in 1..Len(value) : value[n] \in 0..(parser.total - 1)
              /\ {value[n] : n \in 1..Len(value)}
                    = {c - 1 : c \in parser.named}

\* Two items over three chapters that overlap: four chapters named, three
\* indices returned.
C14_OverlapDeduplicated ==
    /\ parser.total = 3
    /\ parser.k = 2
    /\ parser.bad = "none"
    /\ parser.mentions = 4
    /\ parser.outcome.kind = "return"
    /\ parser.outcome.value = << 0, 1, 2 >>

\* C15 as stated: once an item is malformed, names a chapter outside
\* 1..total or is an inverted range, the call has raised; for a single
\* number out of bounds the error is an out-of-bounds error, for an
\* inverted range an invalid-range error.
C15_BadItemRaises ==
    /\ parser.bad # "none" => parser.outcome.kind = "raise"
    /\ parser.bad = "single out of bounds" =>
          parser.outcome.error \in {"Chapter out of bounds",
                                    "Range out of bounds"}
    /\ parser.bad = "inverted" =>
          parser.outcome.error = "Invalid range: start > end"

\* ------------------------------------------------------- the GUI bridge
\* Fault: a slot that never finds its worker running.
WorkerNeverRunning(worker, threads) == FALSE

\* `self._scraper_worker and self._scraper_worker.isRunning()` (and the
\* same for the download worker): the slot's worker exists and its thread
\* has not ended.
WorkerIsRunning(worker, threads) == worker # 0 /\ worker \in threads

InitBridge ==
    /\ BridgeInit
    /\ LoaderIdle(MissingFile)
    /\ NamingIdle
    /\ PostIdle("images")
    /\ ParserEntry(0)
    /\ CallIdle
    /\ BatchIdle
    /\ RetryIdle

\* MangaBridge.fetchManga(url), called on the UI thread.
FetchManga ==
    /\ bridge.requests < MaxRequests
    /\ IF WorkerIsRunning(bridge.scraper_worker, bridge.scrapers)
       THEN bridge' = [bridge EXCEPT !.requests = @ + 1,
                                     !.request = "fetchManga"]
       ELSE bridge' = [bridge EXCEPT !.requests = @ + 1,
                                     !.request = "fetchManga",
                                     !.created = @ + 1,
                                     !.scraper_worker = bridge.created + 1,
                                     !.scrapers = @ \cup {bridge.created + 1}]
    /\ UNCHANGED << batchVars, retryVars, naming, post, parser, loader, cli, image_task, disk >>

\* ScraperWorker.run comes to its end: finished or error has been emitted
\* (mangaLoaded / mangaError), and the thread stops running.
ScraperWorkerEnds(w) ==
    /\ w \in bridge.scrapers
    /\ bridge' = [bridge EXCEPT !.scrapers = @ \ {w},
                                !.signals = @ + 1,
                                !.request = "none"]
    /\ UNCHANGED << batchVars, retryVars, naming, post, parser, loader, cli, image_task, disk >>

\* MangaBridge.startDownload(manga_data, chapter_indices), on the UI thread.
StartDownload ==
    /\ bridge.requests < MaxRequests
    /\ IF WorkerIsRunning(bridge.download_worker, bridge.downloaders)
       THEN bridge' = [bridge EXCEPT !.requests = @ + 1,
                                     !.request = "startDownload"]
       ELSE bridge' = [bridge EXCEPT !.requests = @ + 1,
                                     !.request = "startDownload",
                                     !.created = @ + 1,
                                     !.download_worker = bridge.created + 1,
                                     !.downloaders = @ \cup {bridge.created + 1}]
    /\ UNCHANGED << batchVars, retryVars, naming, post, parser, loader, cli, image_task, disk >>

\* DownloadWorker.run comes to its end: finished or error has been emitted
\* (downloadFinished / downloadError), and the thread stops running.
DownloadWorkerEnds(w) ==
    /\ w \in bridge.downloaders
    /\ bridge' = [bridge EXCEPT !.downloaders = @ \ {w},
                                !.signals = @ + 1,
                                !.request = "none"]
    /\ UNCHANGED << batchVars, retryVars, naming, post, parser, loader, cli, image_task, disk >>

NextBridge ==
    \/ FetchManga
    \/ \E w \in 1..MaxRequests : ScraperWorkerEnds(w)
    \/ StartDownload
    \/ \E w \in 1..MaxRequests : DownloadWorkerEnds(w)

SpecBridge == InitBridge /\ [][NextBridge]_vars

\* C16: after every step at most one scraper thread and at most one
\* download thread are running; and a request that arrives while a thread of
\* its kind is running changes nothing but the history of requests: it
\* creates no worker, replaces no worker and emits no signal.
C16_SingleFlight ==
    [][ /\ Cardinality(bridge'.scrapers) <= 1
        /\ Cardinality(bridge'.downloaders) <= 1
        /\ ( /\ bridge'.requests = bridge.requests + 1
             /\ \/ bridge'.request = "fetchManga" /\ bridge.scrapers # {}
                \/ bridge'.request = "startDownload" /\ bridge.downloaders # {}
           ) => bridge' = [bridge EXCEPT !.requests = bridge'.requests,
                                         !.request = bridge'.request]
      ]_vars

\* A second fetch request and a second download request arrived while both
\* first workers were still running: two workers exist, four requests.
C16_SecondRequestsIgnored ==
    /\ bridge.requests = 4
    /\ bridge.created = 2
    /\ bridge.signals = 0
    /\ Cardinality(bridge.scrapers) = 1
    /\ Cardinality(bridge.downloaders) = 1

-----------------------------------------------------------------------------
\* Configuration: config.json, load_config / save_config, the CLI settings
\* menu and the GUI property setters.

\* Integers a user can put in config.json or hand to a GUI setter.
Settings == (0 - MaxSetting) .. MaxSetting

\* prompt_settings_menu: the limits of max(1, min(limit, value)).
MENU_MIN == 1
MENU_MAX_CHAPTER_WORKERS == 10
MENU_MAX_IMAGE_WORKERS == 20
MENU_MAX_RETRY_COUNT == 10

\* Integers a user can type at an IntPrompt of the settings menu: the
\* small ones and one above each upper limit.
Entered ==
    Settings \cup {MENU_MAX_CHAPTER_WORKERS + MaxSetting,
                   MENU_MAX_IMAGE_WORKERS + MaxSetting}

Max(a, b) == IF a >= b THEN a ELSE b
Min(a, b) == IF a <= b THEN a ELSE b

\* max(1, min(limit, value))
Clamp(limit, value) == Max(MENU_MIN, Min(limit, value))

\* What config.json can be: missing; present but open() fails; bytes that
\* are not UTF-8; text that is not JSON; JSON that is not an object (an
\* array, a number, a string, null); a JSON object with any of the keys.
FileField == {AbsentField} \cup {PresentField(v) : v \in Settings}
NonObjectShapes == {"missing", "unreadable", "not_utf8", "not_json", "non_object"}
ConfigFiles ==
    {FileWithout(shape) : shape \in NonObjectShapes}
    \cup [shape : {"object"},
          max_chapter_workers : FileField,
          max_image_workers : FileField,
          retry_count : FileField]

\* data.get(key, default)
Get(field, default) == IF field.present THEN field.value ELSE default

\* Config.from_dict(data) for a dict.
from_dict(data) ==
    [max_chapter_workers |->
        Get(data.max_chapter_workers, DEFAULT_MAX_CHAPTER_WORKERS),
     max_image_workers |->
        Get(data.max_image_workers, DEFAULT_MAX_IMAGE_WORKERS),
     retry_count |-> Get(data.retry_count, DEFAULT_RETRY_COUNT)]

\* Config.to_dict / json.dump: every key is written.
to_dict(cfg) ==
    [shape |-> "object",
     max_chapter_workers |-> PresentField(cfg.max_chapter_workers),
     max_image_workers |-> PresentField(cfg.max_image_workers),
     retry_count |-> PresentField(cfg.retry_count)]

ReturnValue(cfg) == [kind |-> "return", value |-> cfg, exception |-> "none"]
RaiseError(e) == [kind |-> "raise", value |-> DefaultConfig, exception |-> e]

\* The try block of load_config: open, json.load, Config.from_dict.
\* open() raises an OSError for a file it cannot read; decoding raises
\* UnicodeDecodeError; json.load raises JSONDecodeError; from_dict calls
\* data.get, which a list, a number, a string or None does not have.
LoadConfigTry(file) ==
    CASE file.shape = "unreadable" -> RaiseError("PermissionError")
      [] file.shape = "not_utf8" -> RaiseError("UnicodeDecodeError")
      [] file.shape = "not_json" -> RaiseError("JSONDecodeError")
      [] file.shape = "non_object" -> RaiseError("AttributeError")
      [] OTHER -> ReturnValue(from_dict(file))

\* except (json.JSONDecodeError, IOError): IOError is OSError, of which
\* PermissionError is a subclass; UnicodeDecodeError and JSONDecodeError
\* are both ValueErrors but neither is the other.
LoadCatches(e) == e \in {"JSONDecodeError", "PermissionError"}

\* load_config
load_config(file) ==
    IF file.shape # "missing"
    THEN LET r == LoadConfigTry(file)
         IN  IF r.kind = "raise" /\ LoadCatches(r.exception)
             THEN ReturnValue(DefaultConfig)
             ELSE r
    ELSE ReturnValue(DefaultConfig)

InitConfig ==
    /\ CallIdle
    /\ BatchIdle
    /\ RetryIdle
    /\ NamingIdle
    /\ PostIdle("images")
    /\ ParserEntry(0)
    /\ BridgeInit
    /\ \E frontend \in {"cli", "gui"}, file \in ConfigFiles :
          LoaderEntry(frontend, file)
    /\ CliEntry
    /\ FilesIdle

otherThanLoader ==
    << batchVars, retryVars, naming, post, parser, bridge, cli, image_task, disk >>

\* load_config as the settings command and MangaBridge.__init__ call it,
\* and as the loadConfig slot calls it later: the variable is bound to the
\* new Config object, which no worker holds. An exception leaves the
\* command, the constructor or the slot.
LoadConfig ==
    /\ \/ loader.pc = "start"
       \/ loader.frontend = "gui" /\ loader.pc = "ready"
    /\ LET r == load_config(loader.file)
       IN  loader' =
             IF r.kind = "return"
             THEN [loader EXCEPT
                     !.op = "load_config",
                     !.outcome = "returned",
                     !.loaded = r.value,
                     !.aliased = FALSE,
                     !.pc = IF loader.frontend = "cli" THEN "menu"
                            ELSE "ready"]
             ELSE [loader EXCEPT
                     !.op = "load_config",
                     !.outcome = r.exception,
                     !.pc = "crashed"]
    /\ UNCHANGED otherThanLoader

\* One turn of the settings menu with choice 4, 5 or 6.
MenuSet(field, limit) ==
    /\ loader.frontend = "cli"
    /\ loader.pc = "menu"
    /\ \E value \in Entered :
          loader' = [loader EXCEPT !.op = "menu",
                                   !.loaded[field] = Clamp(limit, value)]
    /\ UNCHANGED otherThanLoader

MenuChapterWorkers == MenuSet("max_chapter_workers", MENU_MAX_CHAPTER_WORKERS)
MenuImageWorkers == MenuSet("max_image_workers", MENU_MAX_IMAGE_WORKERS)
MenuRetryCount == MenuSet("retry_count", MENU_MAX_RETRY_COUNT)

\* save_config: writes every field, or returns False when the file cannot
\* be written.
save_config(file, cfg, writable) == IF writable THEN to_dict(cfg) ELSE file

\* Choice 0 of the settings menu: save and leave.
MenuSave ==
    /\ loader.frontend = "cli"
    /\ loader.pc = "menu"
    /\ \E writable \in BOOLEAN :
          loader' = [loader EXCEPT
                       !.op = "save_config",
                       !.file = save_config(loader.file, loader.loaded,
                                            writable),
                       !.pc = "exit"]
    /\ UNCHANGED otherThanLoader

\* DownloadWorker(manga_dict, indices, self._config): self.config of the
\* worker, and of the DownloadManager it creates, is the bridge's object.
WorkerHoldsBridgeConfig == loader.aliased

\* The maxChapterWorkers, maxImageWorkers and retryCount setters assign to
\* a field of the object self._config refers to; a worker that holds the
\* same object sees the assignment.
GuiSet(field) ==
    /\ loader.frontend = "gui"
    /\ loader.pc = "ready"
    /\ \E value \in Settings :
          /\ loader' = [loader EXCEPT !.op = "setter",
                                      !.loaded[field] = value]
          /\ config' = IF WorkerHoldsBridgeConfig
                       THEN [config EXCEPT ![field] = value]
                       ELSE config
    /\ UNCHANGED << mode, N, orchVars, cancelled, unitVars, histVars >>
    /\ UNCHANGED << retryVars, naming, post, parser, bridge, cli, image_task, disk >>

SetMaxChapterWorkers == GuiSet("max_chapter_workers")
SetMaxImageWorkers == GuiSet("max_image_workers")
SetRetryCount == GuiSet("retry_count")

\* The saveConfig slot.
SaveConfig ==
    /\ loader.frontend = "gui"
    /\ loader.pc = "ready"
    /\ \E writable \in BOOLEAN :
          loader' = [loader EXCEPT
                       !.op = "save_config",
                       !.file = save_config(loader.file, loader.loaded,
                                            writable)]
    /\ UNCHANGED otherThanLoader

NextConfig ==
    \/ LoadConfig
    \/ MenuChapterWorkers
    \/ MenuImageWorkers
    \/ MenuRetryCount
    \/ MenuSave
    \/ SetMaxChapterWorkers
    \/ SetMaxImageWorkers
    \/ SetRetryCount
    \/ SaveConfig

SpecConfig == InitConfig /\ [][NextConfig]_vars

\* C17: in every reachable state the configuration's max_chapter_workers
\* and max_image_workers are at least 1, however the configuration was
\* loaded or changed.
C17_ConcurrencyFieldsPositive ==
    /\ loader.loaded.max_chapter_workers >= 1
    /\ loader.loaded.max_image_workers >= 1

\* C18: load_config never raises; a file that is missing, unreadable, not
\* JSON or not a JSON object gives the all-defaults configuration, and a
\* JSON object gives its own values with the default for every absent key.
C18_LoadNeverFails ==
    loader.op = "load_config" =>
        /\ loader.outcome = "returned"
        /\ loader.loaded =
             IF loader.file.shape = "object"
             THEN [f \in DOMAIN DefaultConfig |->
                     IF loader.file[f].present
                     THEN loader.file[f].value
                     ELSE DefaultConfig[f]]
             ELSE DefaultConfig

-----------------------------------------------------------------------------
\* The download command of the CLI (cli/app.py) and its exit code.

\* The --chapters option: not given (the empty string counts as not
\* given), "all", or a selection of one item.
Options == UNION {[1..n -> Alphabet] : n \in 0..MaxOptionLen}

\* parse_chapter_selection on a selection of one item.
parse_chapter_selection(selection, total) ==
    LET r == ParsePartBody(Strip(selection), total)
    IN  IF r.kind = "raise" THEN r ELSE [r EXCEPT !.set = Sorted(r.set)]

InitCli ==
    /\ CallIdle
    /\ BatchIdle
    /\ RetryIdle
    /\ NamingIdle
    /\ PostIdle("images")
    /\ ParserEntry(0)
    /\ BridgeInit
    /\ \E file \in ConfigFiles : LoaderEntry("cli", file)
    /\ CliEntry
    /\ FilesIdle

otherThanCli ==
    << batchVars, retryVars, naming, post, parser, bridge, image_task, disk >>

\* The command ends with this exit code. An exception that leaves the
\* command ends the interpreter with status 1, like typer.Exit(1).
Exit(code, reason) ==
    [cli EXCEPT !.pc = "exited", !.exit_code = code, !.reason = reason]

\* config = load_config()
CliLoadConfig ==
    /\ cli.pc = "start"
    /\ LET r == load_config(loader.file)
       IN  IF r.kind = "return"
           THEN /\ loader' = [loader EXCEPT !.op = "load_config",
                                            !.outcome = "returned",
                                            !.loaded = r.value]
                /\ cli' = [cli EXCEPT !.pc = "fetch"]
           ELSE /\ loader' = [loader EXCEPT !.op = "load_config",
                                            !.outcome = r.exception]
                /\ cli' = Exit(1, "load_config")
    /\ UNCHANGED otherThanCli

\* manga = scrape_manga(url): it raises, or returns a manga with no
\* chapters, or one with chapters.
ScrapeManga ==
    /\ cli.pc = "fetch"
    /\ \/ cli' = Exit(1, "fetch")
       \/ cli' = Exit(1, "no_chapters")
       \/ \E total \in 1..MaxTotal :
             cli' = [cli EXCEPT !.pc = "select", !.total = total]
    /\ UNCHANGED << otherThanCli, loader >>

\* --chapters all
SelectAll ==
    /\ cli.pc = "select"
    /\ cli' = [cli EXCEPT !.pc = "download", !.selected = cli.total]
    /\ UNCHANGED << otherThanCli, loader >>

\* --chapters with a selection: parsed, and exit 1 on ValueError.
SelectOption ==
    /\ cli.pc = "select"
    /\ \E chapters \in Options \ {<< >>} :
          LET r == parse_chapter_selection(chapters, cli.total)
          IN  cli' = IF r.kind = "raise"
                     THEN Exit(1, "selection")
                     ELSE [cli EXCEPT !.pc = "download",
                                      !.selected = Len(r.set)]
    /\ UNCHANGED << otherThanCli, loader >>

\* No --chapters: prompt_chapter_selection asks until it has "all" or a
\* selection that parses and is not empty.
SelectInteractive ==
    /\ cli.pc = "select"
    /\ \E n \in 1..cli.total :
          cli' = [cli EXCEPT !.pc = "download", !.selected = n]
    /\ UNCHANGED << otherThanCli, loader >>

\* manager.download_chapters: ThreadPoolExecutor raises ValueError for
\* max_workers <= 0, and nothing in the command catches it; otherwise every
\* selected chapter is submitted and gives a result, successful or not.
DownloadChapters ==
    /\ cli.pc = "download"
    /\ IF loader.loaded.max_chapter_workers <= 0
       THEN cli' = [Exit(1, "ValueError") EXCEPT !.download_phase = TRUE]
       ELSE \E failures \in 0..cli.selected :
              cli' = [cli EXCEPT !.pc = "summary",
                                 !.download_phase = TRUE,
                                 !.started = cli.selected,
                                 !.failed = failures]
    /\ UNCHANGED << otherThanCli, loader >>

\* The conversions and the summary; the command returns.
Summary ==
    /\ cli.pc = "summary"
    /\ cli' = Exit(0, "done")
    /\ UNCHANGED << otherThanCli, loader >>

NextCli ==
    \/ CliLoadConfig
    \/ ScrapeManga
    \/ SelectAll
    \/ SelectOption
    \/ SelectInteractive
    \/ DownloadChapters
    \/ Summary

SpecCli == InitCli /\ [][NextCli]_vars

\* C19: the download command exits non-zero with no chapter download
\* started when the metadata fetch fails or the --chapters selection does
\* not parse, and exits 0 from every run that reached the download phase,
\* however many chapters failed.
C19_ExitCodes ==
    cli.pc = "exited" =>
        /\ cli.reason \in {"fetch", "selection"} =>
              cli.exit_code # 0 /\ cli.started = 0
        /\ cli.download_phase => cli.exit_code = 0

-----------------------------------------------------------------------------
\* download_chapters with a completion callback that may raise.

\* One pass of download_chapters' as_completed loop, as the entries it
\* appends to results: future.result() raises, or the result is appended
\* and on_chapter_complete is called; when the callback raises, the
\* `except Exception` of the same try appends a failure as well.
CollectedWithCallback(f, callback_raises) ==
    IF f.kind # "result" THEN << CliCollected(f) >>
    ELSE IF callback_raises
         THEN << f.result, DownloadResult(FALSE, "None", "str(e)", 0) >>
         ELSE << f.result >>

CollectCallback(c) ==
    /\ mode = "cli"
    /\ pc = "collect"
    /\ c \in 1..submitted
    /\ c \notin collected
    /\ future[c].kind # "pending"
    /\ collected' = collected \cup {c}
    /\ pc' = IF collected' = 1..submitted THEN "exit" ELSE "collect"
    /\ \E callback_raises \in BOOLEAN :
          results' = results \o CollectedWithCallback(future[c],
                                                      callback_raises)
    /\ UNCHANGED << submitted, successful, failed, chapter >>
    /\ UNCHANGED << callVars, cancelled, unitVars, histVars, nonBatchVars >>

NextCallback ==
    \/ OpenPool
    \/ Submit
    \/ \E c \in Chapters : StartUnit(c)
    \/ \E c \in Chapters : PageDone(c)
    \/ \E c \in Chapters, i \in 1..MaxImages : ImgDone(c, i)
    \/ \E c \in Chapters : CollectCallback(c)
    \/ Finish

InitCallback == Init /\ mode = "cli"

SpecCallback == InitCallback /\ [][NextCallback]_vars

\* C26: download_chapters returns exactly one DownloadResult per submitted
\* chapter, also when the completion callback raises for some chapter.
C26_OneResultPerChapter ==
    pc = "done" => Len(results) = N

-----------------------------------------------------------------------------
\* A GUI download and the configuration: the worker's Config object, and
\* the retry settings each fetch is wrapped with.

\* config.json with no key other than retry_count.
RetryCountFiles ==
    {f \in ConfigFiles : ~f.max_chapter_workers.present
                         /\ ~f.max_image_workers.present}

InitShare ==
    /\ CallIdle
    /\ BatchIdle
    /\ RetryIdle
    /\ NamingIdle
    /\ PostIdle("images")
    /\ ParserEntry(0)
    /\ BridgeInit
    /\ \E file \in RetryCountFiles : LoaderEntry("gui", file)
    /\ CliEntry
    /\ FilesIdle

\* startDownload creates the worker with self._config, and the worker's
\* run creates DownloadManager(self.config) and opens its pool.
StartWorker ==
    /\ loader.frontend = "gui"
    /\ loader.pc = "ready"
    /\ pc = "start"
    /\ pc' = "submit"
    /\ config' = loader.loaded
    /\ loader' = [loader EXCEPT !.op = "startDownload",
                                !.aliased = TRUE,
                                !.started_with = loader.loaded]
    /\ UNCHANGED << mode, N, submitted, collected, successful, failed,
                    results, chapter, cancelled, unitVars, histVars >>
    /\ UNCHANGED << retryVars, naming, post, parser, bridge, cli, image_task, disk >>

\* download_image wraps fetch_image with
\* retry_request(max_retries=self.config.retry_count, ...).
FetchImage ==
    /\ pc = "submit"
    /\ max_retries' = config.retry_count
    /\ loader' = [loader EXCEPT !.op = "fetch_image"]
    /\ UNCHANGED << base_delay, behaviour, attempt, calls, sleeps,
                    last_exception, outcome >>
    /\ UNCHANGED << batchVars, naming, post, parser, bridge, cli, image_task, disk >>

\* scrape_chapter_images wraps fetch_page with the retry_count of
\* get_config(), that is of load_config() on config.json as it is now;
\* when load_config raises, nothing is fetched.
FetchPage ==
    /\ pc = "submit"
    /\ LET r == load_config(loader.file)
       IN  IF r.kind = "return"
           THEN /\ max_retries' = r.value.retry_count
                /\ loader' = [loader EXCEPT !.op = "fetch_page"]
           ELSE /\ loader' = [loader EXCEPT !.op = "get_config raised"]
                /\ UNCHANGED max_retries
    /\ UNCHANGED << base_delay, behaviour, attempt, calls, sleeps,
                    last_exception, outcome >>
    /\ UNCHANGED << batchVars, naming, post, parser, bridge, cli, image_task, disk >>

NextShare ==
    \/ LoadConfig
    \/ SetRetryCount
    \/ StartWorker
    \/ FetchImage
    \/ FetchPage

SpecShare == InitShare /\ [][NextShare]_vars

\* C29: once startDownload has created the worker, the configuration the
\* running download reads keeps the values it had at that moment, whatever
\* setters or loadConfig are called afterwards.
C29_RunningDownloadIsolated ==
    pc = "submit" => config = loader.started_with

\* C30: every retry-wrapped fetch of a batch, of a chapter page or of an
\* image, is wrapped with the retry_count of the Config the download
\* manager was constructed with.
C30_FetchesUseManagerConfig ==
    loader.op \in {"fetch_page", "fetch_image"} =>
        max_retries = config.retry_count

-----------------------------------------------------------------------------
\* DownloadWorker.run's collection loop, statement by statement, against
\* cancel() from the UI thread.

InitGui == InitPost /\ mode = "gui"

\* as_completed hands over a resolved future and the loop tests the flag:
\* `if self._is_cancelled: break`, else `chapter = futures[future]`.
CollectCheck(c) ==
    /\ mode = "gui"
    /\ pc = "collect"
    /\ c \in 1..submitted
    /\ c \notin collected
    /\ future[c].kind # "pending"
    /\ IF CollectLoopBreaks
       THEN pc' = "exit" /\ UNCHANGED chapter
       ELSE pc' = "tally" /\ chapter' = c
    /\ UNCHANGED << submitted, collected, successful, failed, results >>
    /\ UNCHANGED << callVars, cancelled, unitVars, histVars, nonBatchVars >>

\* The rest of the pass: future.result(), the tally of successful or
\* failed, and chapter_complete.emit for the chapter.
CollectTally ==
    /\ pc = "tally"
    /\ collected' = collected \cup {chapter}
    /\ pc' = IF collected' = 1..submitted THEN "exit" ELSE "collect"
    /\ successful' = successful +
          (IF GuiCountsSuccess(future[chapter]) THEN 1 ELSE 0)
    /\ failed' = failed +
          (IF GuiCountsSuccess(future[chapter]) THEN 0 ELSE 1)
    /\ chapter' = 0
    /\ UNCHANGED << submitted, results >>
    /\ UNCHANGED << callVars, cancelled, unitVars, histVars, nonBatchVars >>

NextGui ==
    \/ OpenPool
    \/ Submit
    \/ SubmitBreak
    \/ Cancel
    \/ \E c \in Chapters : StartUnit(c)
    \/ \E c \in Chapters : DownloadReturns(c)
    \/ \E c \in Chapters : UnitConvertDone(c)
    \/ \E c \in Chapters : CollectCheck(c)
    \/ CollectTally
    \/ Finish

SpecGui == InitGui /\ [][NextGui]_vars

\* C27: in the GUI worker, a unit that returned the absent result is never
\* tallied and gets no chapter_complete event (the tallies count exactly
\* the chapters handled, none of them absent), and after the collection
\* loop has seen the flag and left, the tallies stay as they are until
\* finished is emitted.
C27_AbsentNeverTallied ==
    /\ [](/\ \A c \in collected \cup ({chapter} \ {0}) :
               future[c].kind # "absent"
          /\ successful + failed = Cardinality(collected))
    /\ [][pc = "exit" =>
            /\ successful' = successful
            /\ failed' = failed
            /\ collected' = collected]_vars

\* cancel() came between the loop's test of the flag and its tally; the
\* chapter in hand was tallied, the next unit returned absent, and the
\* worker has finished.
C27_CancelBetweenCheckAndTally ==
    /\ pc = "done"
    /\ cancelPhase = "tally"
    /\ collected = {1}
    /\ future[2].kind = "absent"
    /\ successful + failed = 1

-----------------------------------------------------------------------------
\* download_image, statement by statement, for the image units of one
\* chapter running side by side.

InitImage ==
    /\ CallIdle
    /\ BatchIdle
    /\ RetryIdle
    /\ NamingIdle
    /\ PostIdle("images")
    /\ ParserEntry(0)
    /\ BridgeInit
    /\ LoaderEntry("cli", MissingFile)
    /\ CliEntry
    /\ disk = [chapters |-> << >>]
    /\ \E k \in 1..MaxImages, progress \in BOOLEAN :
          image_task = [progress |-> progress, completed |-> 0,
                        pc |-> [i \in 1..k |-> "fetch"],
                        file |-> [i \in 1..k |-> "absent"],
                        result |-> [i \in 1..k |-> "none"]]

\* `except Exception as e: ...; return False`
ReturnFalse(i) ==
    [image_task EXCEPT !.pc[i] = "returned", !.result[i] = "False"]

\* content = fetch_image(url), then save_path.parent.mkdir(...): each
\* returns or raises (RetryError or an uncaught error; an OSError).
FetchThenMkdir(i) ==
    /\ i \in DOMAIN image_task.pc
    /\ image_task.pc[i] \in {"fetch", "mkdir"}
    /\ \/ image_task' = ReturnFalse(i)
       \/ image_task' =
             [image_task EXCEPT
                !.pc[i] = IF @ = "fetch" THEN "mkdir" ELSE "open"]
    /\ UNCHANGED << batchVars, retryVars, naming, post, parser, bridge,
                    loader, cli, disk >>

\* open(save_path, "wb"): raises and leaves the path as it was, or creates
\* the file empty.
OpenForWriting(i) ==
    /\ i \in DOMAIN image_task.pc
    /\ image_task.pc[i] = "open"
    /\ \/ image_task' = ReturnFalse(i)
       \/ image_task' = [image_task EXCEPT !.pc[i] = "write",
                                           !.file[i] = "empty"]
    /\ UNCHANGED << batchVars, retryVars, naming, post, parser, bridge,
                    loader, cli, disk >>

\* f.write(content) and the end of the `with`: the content is written and
\* the file closed, or an OSError (disk full, I/O error) leaves the file
\* with none or a part of the content.
WriteContent(i) ==
    /\ i \in DOMAIN image_task.pc
    /\ image_task.pc[i] = "write"
    /\ \/ \E left \in {"empty", "partial"} :
             image_task' = [ReturnFalse(i) EXCEPT !.file[i] = left]
       \/ image_task' = [image_task EXCEPT !.pc[i] = "update",
                                           !.file[i] = "complete"]
    /\ UNCHANGED << batchVars, retryVars, naming, post, parser, bridge,
                    loader, cli, disk >>

\* `if progress and task_id is not None: progress.update(task_id,
\* advance=1)`, which adds to the task's counter under the Progress lock,
\* and `return True`.
UpdateAndReturn(i) ==
    /\ i \in DOMAIN image_task.pc
    /\ image_task.pc[i] = "update"
    /\ image_task' =
          [image_task EXCEPT
             !.pc[i] = "returned",
             !.result[i] = "True",
             !.completed = IF image_task.progress THEN @ + 1 ELSE @]
    /\ UNCHANGED << batchVars, retryVars, naming, post, parser, bridge,
                    loader, cli, disk >>

NextImage ==
    \/ \E i \in 1..MaxImages : FetchThenMkdir(i)
    \/ \E i \in 1..MaxImages : OpenForWriting(i)
    \/ \E i \in 1..MaxImages : WriteContent(i)
    \/ \E i \in 1..MaxImages : UpdateAndReturn(i)

SpecImage == InitImage /\ [][NextImage]_vars

\* C21: with a progress task supplied, once all k image units of the
\* chapter have returned, successful or not and in any interleaving, the
\* task's counter has advanced by exactly k.
C21_CounterAdvancesPerUnit ==
    ( /\ image_task.progress
      /\ \A i \in DOMAIN image_task.pc : image_task.pc[i] = "returned" ) =>
        image_task.completed = Len(image_task.pc)

\* C22: when download_image has returned False, no file that the call
\* created and did not complete is at its save_path.
C22_NoPartialFileAfterFailure ==
    \A i \in DOMAIN image_task.pc :
        image_task.result[i] = "False" =>
            image_task.file[i] \notin {"empty", "partial"}

-----------------------------------------------------------------------------
\* The chapter folders: Chapter.__post_init__, the folder name that
\* download_chapter_images derives, and the files under it.

ChapterWord == << "C", "h", "a", "p", "t", "e", "r" >>

\* Chapter titles as the chapter list of a manga page can hold them: with
\* or without the word Chapter, then up to MaxNameLen characters.
Titles ==
    LET rest == UNION {[1..n -> {"1", "2", ".", " ", ":"}] :
                         n \in 0..MaxNameLen}
    IN  rest \cup {ChapterWord \o r : r \in rest}

RECURSIVE NumberPrefix(_)
\* The longest prefix matching [\d.]* .
NumberPrefix(str) ==
    IF str # << >> /\ (IsDigit(Head(str)) \/ Head(str) = ".")
    THEN << Head(str) >> \o NumberPrefix(Tail(str))
    ELSE << >>

\* Chapter(title=..., url=...): __post_init__ sets number to the group of
\* the first match of r'Chapter\s*([\d.]+)' in the title, or to the title.
Chapter(title) ==
    LET after(p) == NumberPrefix(LStrip(SubSeq(title, p + 7, Len(title))))
        matches == {p \in 1..(Len(title) - 6) :
                      /\ SubSeq(title, p, p + 6) = ChapterWord
                      /\ after(p) # << >>}
    IN  [title |-> title,
         number |-> IF matches = {} THEN title
                    ELSE after(CHOOSE p \in matches :
                                 \A q \in matches : p <= q)]

\* chapter_folder: `chapter.number or chapter.title`, without the
\* characters that are neither alphanumeric nor one of ' ', '-', '_', '.',
\* stripped.
chapter_folder(ch) ==
    LET name == IF ch.number # << >> THEN ch.number ELSE ch.title
        Keep(c) == \/ IsDigit(c)
                   \/ c \in {ChapterWord[n] : n \in 1..7}
                   \/ c \in {" ", "-", "_", "."}
    IN  Strip(SelectSeq(name, Keep))

\* Two chapters of one manga, selected for one batch.
InitFolders ==
    /\ CallIdle
    /\ BatchIdle
    /\ RetryIdle
    /\ NamingIdle
    /\ PostIdle("images")
    /\ ParserEntry(0)
    /\ BridgeInit
    /\ LoaderEntry("cli", MissingFile)
    /\ CliEntry
    /\ image_task = [progress |-> FALSE, completed |-> 0, pc |-> << >>,
                     file |-> << >>, result |-> << >>]
    /\ \E t1, t2 \in Titles, remove \in BOOLEAN :
          disk = [chapters |-> << Chapter(t1), Chapter(t2) >>,
                  chapter_path |-> << "unset", "unset" >>,
                  images |-> [c \in 1..2 |-> [i \in 1..MaxImages |-> "none"]],
                  result |-> << "none", "none" >>,
                  files |-> {},
                  remove_images |-> remove,
                  converted |-> {}]

\* chapter_path = output_dir / safe_title / f"Chapter {chapter_folder}",
\* and chapter_path.mkdir(parents=True, exist_ok=True).
MakeChapterPath(c) ==
    /\ c \in DOMAIN disk.chapters
    /\ disk.chapter_path[c] = "unset"
    /\ disk' = [disk EXCEPT
                  !.chapter_path[c] = chapter_folder(disk.chapters[c])]
    /\ UNCHANGED << batchVars, retryVars, naming, post, parser, bridge,
                    loader, cli, image_task >>

NextFolders == \E c \in 1..2 : MakeChapterPath(c)

SpecFolders == InitFolders /\ [][NextFolders]_vars

\* C24: no two image units of a batch have the same destination path,
\* whatever the titles and numbers of the selected chapters.
C24_DestinationsDistinct ==
    \A c, d \in DOMAIN disk.chapters :
        ( /\ c # d
          /\ disk.chapter_path[c] # "unset"
          /\ disk.chapter_path[d] # "unset" ) =>
            \A i, j \in 1..MaxImages :
                << disk.chapter_path[c], Format03d(i) >>
                    # << disk.chapter_path[d], Format03d(j) >>

\* ------------------------------------------------ the files of a batch
\* "Chapter 1" beside "Chapter 2", and beside "Chapter 1:".
InitDisk ==
    /\ InitFolders
    /\ disk.chapters[1].title = ChapterWord \o << " ", "1" >>
    /\ disk.chapters[2].title \in {ChapterWord \o << " ", "2" >>,
                                    ChapterWord \o << "1", ":" >>}

\* download_image for image i of chapter c returns: True with the file
\* written at chapter_path / filename, or False.
SaveImage(c, i) ==
    /\ c \in DOMAIN disk.chapters
    /\ disk.chapter_path[c] # "unset"
    /\ i \in 1..MaxImages
    /\ disk.images[c][i] = "none"
    /\ LET path == disk.chapter_path[c] IN
       \/ disk' = [disk EXCEPT
                     !.images[c][i] = "True",
                     !.files = {f \in @ : f.path # path \/ f.i # i}
                               \cup {[path |-> path, i |-> i, by |-> c]}]
       \/ disk' = [disk EXCEPT !.images[c][i] = "False"]
    /\ UNCHANGED << batchVars, retryVars, naming, post, parser, bridge,
                    loader, cli, image_task >>

\* download_chapter_images returns its DownloadResult: success when every
\* image was saved.
ChapterReturns(c) ==
    /\ c \in DOMAIN disk.chapters
    /\ disk.result[c] = "none"
    /\ \A i \in 1..MaxImages : disk.images[c][i] # "none"
    /\ disk' = [disk EXCEPT
                  !.result[c] =
                     IF \A i \in 1..MaxImages : disk.images[c][i] = "True"
                     THEN "success" ELSE "failure"]
    /\ UNCHANGED << batchVars, retryVars, naming, post, parser, bridge,
                    loader, cli, image_task >>

\* convert_to_pdf / convert_to_cbz for a chapter that succeeded, called by
\* the GUI unit or by the download command's loop: with keep_images false
\* it ends with shutil.rmtree(image_folder).
ConvertChapter(c) ==
    /\ c \in DOMAIN disk.chapters
    /\ disk.result[c] = "success"
    /\ c \notin disk.converted
    /\ disk' = [disk EXCEPT
                  !.converted = @ \cup {c},
                  !.files = IF disk.remove_images
                            THEN {f \in @ : f.path # disk.chapter_path[c]}
                            ELSE @]
    /\ UNCHANGED << batchVars, retryVars, naming, post, parser, bridge,
                    loader, cli, image_task >>

NextDisk ==
    \/ \E c \in 1..2 : MakeChapterPath(c)
    \/ \E c \in 1..2, i \in 1..MaxImages : SaveImage(c, i)
    \/ \E c \in 1..2 : ChapterReturns(c)
    \/ \E c \in 1..2 : ConvertChapter(c)

SpecDisk == InitDisk /\ [][NextDisk]_vars

\* C23: once a chapter has ended in failure, the image files it wrote are
\* neither deleted nor rewritten by any later step of the batch or of the
\* conversions.
C23_FailedChapterFilesKept ==
    [][\A c \in DOMAIN disk.chapters :
          disk.result[c] = "failure" =>
              \A f \in disk.files : f.by = c => f \in disk'.files]_vars

=============================================================================
